---- MODULE Spec2Model ----
(***************************************************************************)
(* Model of run_college_scraper (src/scraper.py): load the persisted      *)
(* store, crawl every configured source with bounded retries, filter and  *)
(* deduplicate the extracted records into a session, merge the session    *)
(* into the store, and write the store back.                              *)
(*                                                                         *)
(* Strings are sequences of one-character strings so that lower() and     *)
(* strip() are computed rather than assumed.                              *)
(***************************************************************************)
EXTENDS Integers, Sequences, FiniteSets, TLC

(* ---------------------------- bounds ---------------------------------- *)
\* number of consecutive runs of the batch job
MaxRuns == 2
\* number of raw records emitted by the largest rendered document
BigLen == 22

(* ------------------------ program constants --------------------------- *)
numOfNews == 20
MaxAttempts == 3
SessionCeiling == 50

(* ------------------------------ strings ------------------------------- *)
Uppers == <<"A","B","C","D","E","F","G","H","I","J","K","L","M",
            "N","O","P","Q","R","S","T","U","V","W","X","Y","Z">>
Lowers == <<"a","b","c","d","e","f","g","h","i","j","k","l","m",
            "n","o","p","q","r","s","t","u","v","w","x","y","z">>
Whitespace == {" ", "\t", "\n"}

\* the lower-case letter of every upper-case letter
LowerMap == [c \in { Uppers[i] : i \in 1..Len(Uppers) } |->
               Lowers[CHOOSE i \in 1..Len(Uppers) : Uppers[i] = c]]

LowerChar(c) == IF c \in DOMAIN LowerMap THEN LowerMap[c] ELSE c

\* str.lower()
Lower(s) == [i \in 1..Len(s) |-> LowerChar(s[i])]

RECURSIVE LStrip(_)
LStrip(s) ==
  IF s # <<>> /\ Head(s) \in Whitespace THEN LStrip(Tail(s)) ELSE s

RECURSIVE RStrip(_)
RStrip(s) ==
  IF s # <<>> /\ s[Len(s)] \in Whitespace
  THEN RStrip(SubSeq(s, 1, Len(s) - 1)) ELSE s

\* str.strip()
Strip(s) == RStrip(LStrip(s))

\* the expression  x.lower().strip()
Norm(s) == Strip(Lower(s))

\* the expression  kw in text
Contains(kw, text) ==
  \E i \in 0..(Len(text) - Len(kw)) : SubSeq(text, i + 1, i + Len(kw)) = kw

KEYWORDS ==
  << <<"s","t","u","d","e","n","t">>,
     <<"r","e","s","e","a","r","c","h">>,
     <<"o","p","p","o","r","t","u","n","i","t","y">>,
     <<"p","r","o","g","r","a","m">>,
     <<"e","v","e","n","t">>,
     <<"h","a","c","k","a","t","h","o","n">>,
     <<"s","t","e","m">>,
     <<"a","r","t","s">>,
     <<"i","n","t","e","r","n","s","h","i","p">>,
     <<"w","o","r","k","s","h","o","p">> >>

(* ------------------------------ records ------------------------------- *)
\* dict.get(key, default)
Get(d, k, default) == IF k \in DOMAIN d THEN d[k] ELSE default

Item(t, d) == [title |-> t, description |-> d]

\* two-letter code of a number, distinct for 1..26*26
Code(i) == << Lowers[((i - 1) \div 26) + 1], Lowers[((i - 1) % 26) + 1] >>

\* the i-th record of the long listing page
BigItem(i) ==
  Item(<<"S","t","e","m"," ">> \o Code(i), <<"N","o","t","e"," ">> \o Code(i))

RecA  == Item(<<"A">>, <<"W","o","r","k","s","h","o","p"," ","a">>)
RecB  == Item(<<"B">>, <<"e","v","e","n","t"," ","b">>)
RecC  == Item(<<"C">>, <<"S","T","E","M"," ","c">>)
\* same normalized title as RecA, other description
RecA2 == Item(<<" ","a"," ">>, <<"a","r","t","s"," ","a">>)
\* same normalized description as RecB, other title
RecB2 == Item(<<"D">>, <<" ","E","v","e","n","t"," ","B","\n">>)
\* empty and whitespace-only descriptions
RecE  == Item(<<"s","t","e","m"," ","e">>, <<>>)
RecW  == Item(<<"s","t","e","m"," ","w">>, <<" ","\t">>)
\* no keyword in title or description
RecN  == Item(<<"G","a","l","a">>, <<"d","i","n","n","e","r">>)
\* same normalized description as RecN, with a keyword in the title
RecN2 == Item(<<"A","r","t","s">>, <<"D","i","n","n","e","r"," ">>)
\* same normalized title as the last record a full listing page leaves in a
\* session, other description
RecS  == Item(<<"S","T","E","M"," ">> \o Code(numOfNews), <<"a","r","t","s"," ","s">>)
\* keyword only in the title, extra field carried along
RecT  == [title |-> <<"P","r","o","g","r","a","m">>,
          description |-> <<"n","e","w">>,
          date |-> <<"1","/","2">>]

(* --------------------------- configuration ---------------------------- *)
\* the college_urls argument: ordered (source id, url list) pairs
college_urls ==
  << [id |-> "ccny", urls |-> <<"ccny/1", "ccny/2">>],
     [id |-> "nope", urls |-> <<"nope/1">>],
     [id |-> "bmcc", urls |-> <<"bmcc/1">>] >>

\* keys of scraper_dispatch that occur in the model
scraper_dispatch == {"ccny", "bmcc", "york"}

\* the documents a url may render to
UrlDocs(url) ==
  CASE url = "ccny/1" -> {"big", "ab", "bad"}
    [] url = "ccny/2" -> {"ca", "mix"}
    [] url = "bmcc/1" -> {"ab", "bad"}
    [] OTHER          -> {"ab"}

\* documents on which the source's extractor raises
ExtractorRaises(doc) == doc = "bad"

\* new_items = await scraper_dispatch[college_id](soup)
Extract(doc) ==
  CASE doc = "big" -> [i \in 1..BigLen |-> BigItem(i)]
    [] doc = "ab"  -> <<RecA, RecB>>
    [] doc = "ca"  -> <<RecC, RecA2>>
    [] doc = "mix" -> <<RecE, RecN, RecB2, RecW, RecT, RecB, RecN2, RecS>>
    [] OTHER       -> <<>>

(* --------------------------- session rules ---------------------------- *)
\* desc = item.get('description', '').lower().strip()
DescOf(item) == Norm(Get(item, "description", <<>>))

\* title = item.get('title', '').lower().strip()
TitleOf(item) == Norm(Get(item, "title", <<>>))

\* variant: the text is not lower-cased
CombinedText_Raw(item) ==
  Get(item, "title", <<>>) \o <<" ">> \o Get(item, "description", <<>>)

\* combined_text = f"{title} {desc}"
CombinedText(item) == TitleOf(item) \o <<" ">> \o DescOf(item)

\* variant: the raw description is looked up in the seen set
Skipped_RawLookup(item, seen) ==
  DescOf(item) = <<>> \/ Get(item, "description", <<>>) \in seen

\* variant: the test for an empty description is missing
Skipped_NoEmptyTest(item, seen) == DescOf(item) \in seen

\* if not desc or desc in seen_descriptions: continue
Skipped(item, seen) == DescOf(item) = <<>> \/ DescOf(item) \in seen

\* if not use_keywords or any(kw in combined_text for kw in KEYWORDS)
Relevant(item, useKw) ==
  ~useKw \/ \E k \in 1..Len(KEYWORDS) : Contains(KEYWORDS[k], CombinedText(item))

Admitted(item, seen, useKw) == ~Skipped(item, seen) /\ Relevant(item, useKw)

\* variant: a cleaned copy of the item is appended
SessionAfter_Cleaned(session, item) ==
  Append(session, [item EXCEPT !.description = DescOf(item)])

\* variant: the item is inserted at the front
SessionAfter_Front(session, item) == <<item>> \o session

\* session_college_data.append(item)
SessionAfter(session, item) == Append(session, item)

\* variant: the description is registered before the keyword test
Registers_BeforeFilter(item, seen, useKw) == ~Skipped(item, seen)

\* seen_descriptions.add(desc) is reached for the item
Registers(item, seen, useKw) == Admitted(item, seen, useKw)

\* variant: the cap is tested with > instead of >=
ItemLoopBreak_Late(session) == Len(session) > numOfNews

\* if len(session_college_data) >= numOfNews: break
ItemLoopBreak(session) == Len(session) >= numOfNews

\* if len(session_college_data) >= 50: break
UrlLoopBreak(session) == Len(session) >= SessionCeiling

\* variant: a failed attempt is always retried
RetryAgain_Always(att) == TRUE

\* variant: one retry too many
RetryAgain_Four(att) == att < MaxAttempts

\* variant: one retry too few
RetryAgain_Two(att) == att < MaxAttempts - 2

\* except Exception: if attempt < 2: continue
RetryAgain(att) == att < MaxAttempts - 1

(* ----------------------------- merge rules ---------------------------- *)
EmptyStore == [k \in {} |-> <<>>]

\* variant: the store is rebuilt with the one key
Put_OnlyKey(store, k, v) == [x \in {k} |-> v]

\* final_output[college_id] = v
Put(store, k, v) ==
  [x \in (DOMAIN store) \cup {k} |-> IF x = k THEN v ELSE store[x]]

\* list[:n]
Take(list, n) == SubSeq(list, 1, IF Len(list) < n THEN Len(list) ELSE n)

\* variant: the comparison is not strict
ReplaceCond_NotStrict(session, existing) == Len(session) >= Len(existing)

\* if len(session_college_data) > len(existing_data)
ReplaceCond(session, existing) == Len(session) > Len(existing)

\* variant: the titles of the existing records are not normalized
ExistingTitles_Raw(existing) ==
  { Get(existing[i], "title", <<>>) : i \in 1..Len(existing) }

\* existing_titles = {i.get('title', '').lower().strip() for i in existing_data}
ExistingTitles(existing) == { TitleOf(existing[i]) : i \in 1..Len(existing) }

\* variant: every record of the session counts as fresh
FreshItems_All(session, existing) == session

\* variant: titles are compared without lower().strip()
FreshItems_RawTitle(session, existing) ==
  LET raw == { Get(existing[i], "title", <<>>) : i \in 1..Len(existing) }
      IsFresh(item) == Get(item, "title", <<>>) \notin raw
  IN  SelectSeq(session, IsFresh)

\* fresh_items = [item for item in session if title not in existing_titles]
FreshItems(session, existing) ==
  LET IsFresh(item) == TitleOf(item) \notin ExistingTitles(existing)
  IN  SelectSeq(session, IsFresh)

\* variant: the slice [:numOfNews] is missing
UpdatedList_NoSlice(fresh, existing) == fresh \o existing

\* variant: the fresh items are appended instead of prepended
UpdatedList_Appended(fresh, existing) == Take(existing \o fresh, numOfNews)

\* updated_list = fresh_items + existing_data ; updated_list[:numOfNews]
UpdatedList(fresh, existing) == Take(fresh \o existing, numOfNews)

\* variant: every non-empty session replaces the collection
MergeStore_AlwaysReplace(store, id, session) ==
  IF session # <<>> THEN Put(store, id, session) ELSE store

\* variant: the replace branch is missing, every session is prepended
MergeStore_NoReplace(store, id, session) ==
  LET existing == Get(store, id, <<>>)
      fresh    == FreshItems(session, existing)
  IN  IF session # <<>> /\ fresh # <<>>
      THEN Put(store, id, UpdatedList(fresh, existing))
      ELSE store

\* the store after the merging block for college_id
MergeStore(store, id, session) ==
  LET existing == Get(store, id, <<>>)
      fresh    == FreshItems(session, existing)
  IN  IF ReplaceCond(session, existing) THEN Put(store, id, session)
      ELSE IF session # <<>> /\ fresh # <<>>
           THEN Put(store, id, UpdatedList(fresh, existing))
           ELSE store

(* --------------------------- persisted file --------------------------- *)
KeyOrder == <<"ccny", "nope", "bmcc", "york">>

RECURSIVE Entries(_, _)
Entries(store, keys) ==
  IF keys = <<>> THEN <<>>
  ELSE (IF Head(keys) \in DOMAIN store
        THEN << [tok |-> "entry", key |-> Head(keys), value |-> store[Head(keys)]] >>
        ELSE <<>>) \o Entries(store, Tail(keys))

\* json.dump(final_output, f): the chunks written, in order
Dump(store) ==
  << [tok |-> "open"] >> \o Entries(store, KeyOrder) \o << [tok |-> "close"] >>

\* whether json.load(f) succeeds on the content
WellFormed(content) ==
  /\ Len(content) >= 2
  /\ content[1].tok = "open"
  /\ content[Len(content)].tok = "close"
  /\ \A i \in 2..(Len(content) - 1) : content[i].tok = "entry"

\* json.load(f) on a well-formed content
Parse(content) ==
  LET body == SubSeq(content, 2, Len(content) - 1)
      keys == { body[i].key : i \in 1..Len(body) }
  IN  [k \in keys |->
         body[CHOOSE i \in 1..Len(body) :
                 body[i].key = k /\ \A j \in (i + 1)..Len(body) : body[j].key # k].value]

NoFile == [exists |-> FALSE, content |-> <<>>]
FileOf(content) == [exists |-> TRUE, content |-> content]

\* whether f.read() can decode the bytes of the file as utf-8
Decodable(content) == \A i \in 1..Len(content) : content[i].tok # "undecodable"

\* the store the run starts from
LoadStore(f) ==
  IF f.exists /\ WellFormed(f.content) THEN Parse(f.content) ELSE EmptyStore

(* ------------------------------- state -------------------------------- *)
VARIABLES
  file,                  \* colleges_data.json on disk
  file0,                 \* colleges_data.json as it was when the run started
  started_empty,         \* whether the first run found no store in the file
  items,                 \* college_urls.items(): the (id, urls) pairs in iteration order
  run,                   \* number of the current run
  pc,                    \* position of the run
  use_keywords,          \* the use_keywords argument
  final_output,          \* the in-memory store
  srcIdx,                \* position in college_urls (0 before the first source)
  session_college_data,  \* records admitted in the current session
  seen_descriptions,     \* normalized descriptions admitted in the session
  urlIdx,                \* position in the source's url list
  attempt,               \* the attempt loop variable, 0..2
  soup,                  \* the document rendered last
  new_items,             \* records returned by the extractor
  itemIdx,               \* position in new_items
  existing_data,         \* the collection read at the start of the merge
  chunks,                \* chunks json.dump still has to write
  opens,                 \* times the file was opened for writing in this run
  calls,                 \* page.goto calls made per url of the current source
  outcome,               \* how the attempts of each url of the source ended
  docs_ok,               \* (url position, document) extracted without error in this session
  merged,                \* source ids whose merging block ran in this run
  sessions               \* the session each merging block of this run worked on

vars == << file, file0, started_empty, items, run, pc, use_keywords, final_output, srcIdx,
           session_college_data, seen_descriptions, urlIdx, attempt, soup,
           new_items, itemIdx, existing_data, chunks, opens, calls, outcome, docs_ok,
           merged, sessions >>

locals == << final_output, srcIdx, session_college_data, seen_descriptions,
             urlIdx, attempt, soup, new_items, itemIdx, existing_data,
             chunks, opens, calls, outcome, docs_ok, merged, sessions >>

crawl == << session_college_data, seen_descriptions, urlIdx, attempt, soup,
            new_items, itemIdx, calls, outcome, docs_ok >>

NumSources == Len(items)
college_id == items[srcIdx].id
urls == items[srcIdx].urls

\* a persisted collection longer than the cap, a key that is not configured,
\* and a collection under a key that has no extractor
OldStore ==
  [k \in {"ccny", "york", "nope"} |->
     IF k = "ccny" THEN [i \in 1..(numOfNews + 1) |-> BigItem(i)]
     ELSE IF k = "york" THEN <<RecN>> ELSE <<RecB>>]

InitFiles ==
  { NoFile,
    FileOf(<< [tok |-> "garbage"] >>),
    FileOf(<< [tok |-> "undecodable"] >>),
    FileOf(Dump(EmptyStore)),
    FileOf(Dump(OldStore)) }

FreshLocals ==
  /\ final_output = EmptyStore
  /\ srcIdx = 0
  /\ session_college_data = <<>>
  /\ seen_descriptions = {}
  /\ urlIdx = 0
  /\ attempt = 0
  /\ soup = "none"
  /\ new_items = <<>>
  /\ itemIdx = 0
  /\ existing_data = <<>>
  /\ chunks = <<>>
  /\ calls = <<>>
  /\ outcome = <<>>
  /\ docs_ok = <<>>
  /\ opens = 0
  /\ merged = <<>>
  /\ sessions = EmptyStore

\* a new process: nothing of the previous one is in memory
ResetLocals ==
  /\ final_output' = EmptyStore
  /\ srcIdx' = 0
  /\ session_college_data' = <<>>
  /\ seen_descriptions' = {}
  /\ urlIdx' = 0
  /\ attempt' = 0
  /\ soup' = "none"
  /\ new_items' = <<>>
  /\ itemIdx' = 0
  /\ existing_data' = <<>>
  /\ chunks' = <<>>
  /\ calls' = <<>>
  /\ outcome' = <<>>
  /\ docs_ok' = <<>>
  /\ opens' = 0
  /\ merged' = <<>>
  /\ sessions' = EmptyStore

\* the state before the first run, whatever the iteration order
InitRun ==
  /\ file \in InitFiles
  /\ file0 = file
  /\ started_empty = (LoadStore(file) = EmptyStore)
  /\ use_keywords \in BOOLEAN
  /\ run = 1
  /\ pc = "load"
  /\ FreshLocals

Init ==
  /\ items = college_urls
  /\ InitRun

\* the orders in which a caller can build the college_urls mapping
Orders ==
  { [i \in 1..Len(college_urls) |-> college_urls[p[i]]] :
      p \in Permutations(1..Len(college_urls)) }

\* the state before a run, for every iteration order of the mapping
OrderInit ==
  /\ items \in Orders
  /\ InitRun

(* ------------------------------ actions ------------------------------- *)
\* lines 1340-1347: read the persisted store
LoadState ==
  /\ pc = "load"
  /\ file.exists => Decodable(file.content)
  /\ final_output' = LoadStore(file)
  /\ pc' = "launch"
  /\ UNCHANGED << file, file0, started_empty, items, run, use_keywords, srcIdx, existing_data, chunks, opens, merged, sessions >>
  /\ UNCHANGED crawl

\* line 1343: f.read() raises UnicodeDecodeError, which the except clause of
\* line 1344 (json.JSONDecodeError) does not catch; the exception leaves the run
LoadFail ==
  /\ pc = "load"
  /\ file.exists /\ ~Decodable(file.content)
  /\ pc' = "load_failed"
  /\ UNCHANGED << file, file0, started_empty, items, run, use_keywords >>
  /\ UNCHANGED locals

\* lines 1362-1368: browser, context and page are created
LaunchOk ==
  /\ pc = "launch"
  /\ pc' = "sources"
  /\ UNCHANGED << file, file0, started_empty, items, run, use_keywords >>
  /\ UNCHANGED locals

\* variant: the failure to start the renderer is swallowed and the save is made
LaunchFail_ThenSave ==
  /\ pc = "launch"
  /\ pc' = "save"
  /\ UNCHANGED << file, file0, started_empty, items, run, use_keywords >>
  /\ UNCHANGED locals

\* lines 1362-1368: the renderer cannot be started, the exception leaves the run
LaunchFail ==
  /\ pc = "launch"
  /\ pc' = "aborted"
  /\ UNCHANGED << file, file0, started_empty, items, run, use_keywords >>
  /\ UNCHANGED locals

\* variant: the session and the seen set are not emptied for the next source
NextSource_KeepSession ==
  /\ pc = "sources"
  /\ IF srcIdx < NumSources
     THEN /\ srcIdx' = srcIdx + 1
          /\ urlIdx' = 0
          /\ calls' = [u \in 1..Len(items[srcIdx + 1].urls) |-> 0]
          /\ outcome' = [u \in 1..Len(items[srcIdx + 1].urls) |-> "none"]
          /\ docs_ok' = <<>>
          /\ pc' = "urls"
          /\ UNCHANGED << session_college_data, seen_descriptions, attempt, soup,
                          new_items, itemIdx >>
     ELSE /\ pc' = "save"
          /\ UNCHANGED srcIdx
          /\ UNCHANGED crawl
  /\ UNCHANGED << file, file0, started_empty, items, run, use_keywords, final_output, existing_data, chunks, opens, merged, sessions >>

\* lines 1370-1372: next source of the for loop, or leave the loop (line 1437)
NextSource ==
  /\ pc = "sources"
  /\ IF srcIdx < NumSources
     THEN /\ srcIdx' = srcIdx + 1
          /\ session_college_data' = <<>>
          /\ seen_descriptions' = {}
          /\ urlIdx' = 0
          /\ calls' = [u \in 1..Len(items[srcIdx + 1].urls) |-> 0]
          /\ outcome' = [u \in 1..Len(items[srcIdx + 1].urls) |-> "none"]
          /\ docs_ok' = <<>>
          /\ pc' = "urls"
          /\ UNCHANGED << attempt, soup, new_items, itemIdx >>
     ELSE /\ pc' = "save"
          /\ UNCHANGED srcIdx
          /\ UNCHANGED crawl
  /\ UNCHANGED << file, file0, started_empty, items, run, use_keywords, final_output, existing_data, chunks, opens, merged, sessions >>

\* lines 1374-1378: next url of the source, or leave the url loop
NextUrl ==
  /\ pc = "urls"
  /\ IF urlIdx < Len(urls) /\ ~UrlLoopBreak(session_college_data)
     THEN /\ urlIdx' = urlIdx + 1
          /\ attempt' = 0
          /\ pc' = "attempt"
     ELSE /\ pc' = "merge"
          /\ UNCHANGED << urlIdx, attempt >>
  /\ UNCHANGED << file, file0, started_empty, items, run, use_keywords, final_output, srcIdx,
                  session_college_data, seen_descriptions, soup, new_items,
                  itemIdx, existing_data, chunks, opens, calls, outcome, docs_ok, merged, sessions >>

\* variant: the last failure of a url is re-raised and leaves the run
AfterFailure_Raise ==
  /\ calls' = [calls EXCEPT ![urlIdx] = @ + 1]
  /\ IF RetryAgain(attempt)
     THEN /\ attempt' = attempt + 1
          /\ pc' = "attempt"
          /\ UNCHANGED outcome
     ELSE /\ outcome' = [outcome EXCEPT ![urlIdx] = "exhausted"]
          /\ pc' = "aborted"
          /\ UNCHANGED attempt
  /\ UNCHANGED << file, file0, started_empty, items, run, use_keywords, final_output, srcIdx,
                  session_college_data, seen_descriptions, urlIdx, new_items,
                  itemIdx, existing_data, chunks, opens, docs_ok, merged, sessions >>

\* lines 1404-1407: the except clause of one attempt
AfterFailure ==
  /\ calls' = [calls EXCEPT ![urlIdx] = @ + 1]
  /\ IF RetryAgain(attempt)
     THEN /\ attempt' = attempt + 1
          /\ pc' = "attempt"
          /\ UNCHANGED outcome
     ELSE /\ outcome' = [outcome EXCEPT ![urlIdx] = "exhausted"]
          /\ pc' = "urls"
          /\ UNCHANGED attempt
  /\ UNCHANGED << file, file0, started_empty, items, run, use_keywords, final_output, srcIdx,
                  session_college_data, seen_descriptions, urlIdx, new_items,
                  itemIdx, existing_data, chunks, opens, docs_ok, merged, sessions >>

\* lines 1381-1382: page.goto times out or fails to navigate
RenderFail ==
  /\ pc = "attempt"
  /\ UNCHANGED soup
  /\ AfterFailure

\* lines 1381-1388: the page renders, the extractor raises on the document
ExtractFail ==
  /\ pc = "attempt"
  /\ college_id \in scraper_dispatch
  /\ \E doc \in UrlDocs(urls[urlIdx]) :
       /\ ExtractorRaises(doc)
       /\ soup' = doc
  /\ AfterFailure

\* lines 1381-1388: the page renders and the extractor returns its records
ExtractOk ==
  /\ pc = "attempt"
  /\ college_id \in scraper_dispatch
  /\ \E doc \in UrlDocs(urls[urlIdx]) :
       /\ ~ExtractorRaises(doc)
       /\ soup' = doc
       /\ new_items' = Extract(doc)
       /\ docs_ok' = Append(docs_ok, [url |-> urlIdx, doc |-> doc])
  /\ itemIdx' = 0
  /\ calls' = [calls EXCEPT ![urlIdx] = @ + 1]
  /\ pc' = "items"
  /\ UNCHANGED << file, file0, started_empty, items, run, use_keywords, final_output, srcIdx,
                  session_college_data, seen_descriptions, urlIdx, attempt,
                  existing_data, chunks, opens, outcome, merged, sessions >>

\* variant: a source without extractor is handed to a default extractor
NoExtractor_Fallback ==
  /\ pc = "attempt"
  /\ college_id \notin scraper_dispatch
  /\ \E doc \in UrlDocs(urls[urlIdx]) :
       /\ soup' = doc
       /\ new_items' = Extract(doc)
       /\ docs_ok' = Append(docs_ok, [url |-> urlIdx, doc |-> doc])
  /\ itemIdx' = 0
  /\ calls' = [calls EXCEPT ![urlIdx] = @ + 1]
  /\ pc' = "items"
  /\ UNCHANGED << file, file0, started_empty, items, run, use_keywords, final_output, srcIdx,
                  session_college_data, seen_descriptions, urlIdx, attempt,
                  existing_data, chunks, opens, outcome, merged, sessions >>

\* lines 1381-1387, 1403: the page renders, no extractor is registered
NoExtractor ==
  /\ pc = "attempt"
  /\ college_id \notin scraper_dispatch
  /\ \E doc \in UrlDocs(urls[urlIdx]) : soup' = doc
  /\ calls' = [calls EXCEPT ![urlIdx] = @ + 1]
  /\ outcome' = [outcome EXCEPT ![urlIdx] = "ok"]
  /\ pc' = "urls"
  /\ UNCHANGED << file, file0, started_empty, items, run, use_keywords, final_output, srcIdx,
                  session_college_data, seen_descriptions, urlIdx, attempt,
                  new_items, itemIdx, existing_data, chunks, opens, docs_ok, merged, sessions >>

\* variant: the break after the item loop is missing, the attempt loop goes on
NextItem_NoBreak ==
  /\ pc = "items"
  /\ IF itemIdx < Len(new_items) /\ ~ItemLoopBreak(session_college_data)
     THEN LET item == new_items[itemIdx + 1] IN
          /\ itemIdx' = itemIdx + 1
          /\ session_college_data' =
                IF Admitted(item, seen_descriptions, use_keywords)
                THEN SessionAfter(session_college_data, item)
                ELSE session_college_data
          /\ seen_descriptions' =
                IF Registers(item, seen_descriptions, use_keywords)
                THEN seen_descriptions \cup {DescOf(item)}
                ELSE seen_descriptions
          /\ UNCHANGED << pc, outcome, attempt >>
     ELSE /\ IF attempt < MaxAttempts - 1
             THEN attempt' = attempt + 1 /\ pc' = "attempt" /\ UNCHANGED outcome
             ELSE /\ outcome' = [outcome EXCEPT ![urlIdx] = "ok"]
                  /\ pc' = "urls"
                  /\ UNCHANGED attempt
          /\ UNCHANGED << itemIdx, session_college_data, seen_descriptions >>
  /\ UNCHANGED << file, file0, started_empty, items, run, use_keywords, final_output, srcIdx, urlIdx,
                  soup, new_items, existing_data, chunks, opens, calls,
                  docs_ok, merged, sessions >>

\* lines 1389-1403: one iteration of the item loop, or its end and the break
NextItem ==
  /\ pc = "items"
  /\ IF itemIdx < Len(new_items) /\ ~ItemLoopBreak(session_college_data)
     THEN LET item == new_items[itemIdx + 1] IN
          /\ itemIdx' = itemIdx + 1
          /\ session_college_data' =
                IF Admitted(item, seen_descriptions, use_keywords)
                THEN SessionAfter(session_college_data, item)
                ELSE session_college_data
          /\ seen_descriptions' =
                IF Registers(item, seen_descriptions, use_keywords)
                THEN seen_descriptions \cup {DescOf(item)}
                ELSE seen_descriptions
          /\ UNCHANGED << pc, outcome >>
     ELSE /\ outcome' = [outcome EXCEPT ![urlIdx] = "ok"]
          /\ pc' = "urls"
          /\ UNCHANGED << itemIdx, session_college_data, seen_descriptions >>
  /\ UNCHANGED << file, file0, started_empty, items, run, use_keywords, final_output, srcIdx, urlIdx,
                  attempt, soup, new_items, existing_data, chunks, opens, calls,
                  docs_ok, merged, sessions >>

\* variant: the save follows the merging block inside the source loop
Merge_ThenSave ==
  /\ pc = "merge"
  /\ existing_data' = Get(final_output, college_id, <<>>)
  /\ final_output' = MergeStore(final_output, college_id, session_college_data)
  /\ merged' = Append(merged, college_id)
  /\ sessions' = Put(sessions, college_id, session_college_data)
  /\ pc' = "save"
  /\ UNCHANGED << file, file0, started_empty, items, run, use_keywords, srcIdx, chunks, opens >>
  /\ UNCHANGED crawl

\* lines 1409-1435: the merging block
Merge ==
  /\ pc = "merge"
  /\ existing_data' = Get(final_output, college_id, <<>>)
  /\ final_output' = MergeStore(final_output, college_id, session_college_data)
  /\ merged' = Append(merged, college_id)
  /\ sessions' = Put(sessions, college_id, session_college_data)
  /\ pc' = "sources"
  /\ UNCHANGED << file, file0, started_empty, items, run, use_keywords, srcIdx, chunks, opens >>
  /\ UNCHANGED crawl

\* line 1439: open(json_file, 'w') creates or truncates the file
OpenForWrite ==
  /\ pc = "save"
  /\ file' = FileOf(<<>>)
  /\ chunks' = Dump(final_output)
  /\ opens' = opens + 1
  /\ pc' = "write"
  /\ UNCHANGED << file0, started_empty, items, run, use_keywords, final_output, srcIdx, existing_data, merged, sessions >>
  /\ UNCHANGED crawl

\* line 1440: json.dump writes the next chunk; after the last one the file is closed
WriteChunk ==
  /\ pc = "write"
  /\ file' = FileOf(Append(file.content, Head(chunks)))
  /\ chunks' = Tail(chunks)
  /\ pc' = IF Len(chunks) = 1 THEN "done" ELSE "write"
  /\ UNCHANGED opens
  /\ UNCHANGED << file0, started_empty, items, run, use_keywords, final_output, srcIdx, existing_data, merged, sessions >>
  /\ UNCHANGED crawl

Running == pc \notin {"done", "aborted", "load_failed", "crashed"}

\* the process is killed; only the file survives
Crash ==
  /\ Running
  /\ pc' = "crashed"
  /\ ResetLocals
  /\ UNCHANGED << file, file0, started_empty, items, run, use_keywords >>

\* the batch job is started again after a run that ended by itself (a killed
\* run leaves a file that a later run reads like the malformed initial file)
StartRun ==
  /\ pc \in {"done", "aborted", "load_failed"}
  /\ run < MaxRuns
  /\ run' = run + 1
  /\ pc' = "load"
  /\ ResetLocals
  /\ file0' = file
  /\ UNCHANGED << file, started_empty, items, use_keywords >>

Next ==
  \/ LoadState
  \/ LoadFail
  \/ LaunchOk
  \/ LaunchFail
  \/ NextSource
  \/ NextUrl
  \/ RenderFail
  \/ ExtractFail
  \/ ExtractOk
  \/ NoExtractor
  \/ NextItem
  \/ Merge
  \/ OpenForWrite
  \/ WriteChunk
  \/ Crash
  \/ StartRun

Spec == Init /\ [][Next]_vars

(* ------------------------- properties: merge -------------------------- *)
\* the merging block of the current source has just run; existing_data and
\* session_college_data still hold what it worked on
JustMerged == pc = "sources" /\ srcIdx >= 1

\* the collection of the current source in the store
Entry == Get(final_output, college_id, <<>>)

\* C1: a merge with an empty session result leaves the whole store as it
\* was: the entry of the source is identical and no key is created.
C1_EmptySessionNoOp ==
  [][ (pc = "merge" /\ pc' = "sources" /\ session_college_data = <<>>)
        => final_output' = final_output ]_vars

C1_Witness ==
  /\ JustMerged
  /\ session_college_data = <<>>
  /\ existing_data # <<>>
  /\ "nope" \notin DOMAIN final_output
  /\ "nope" \in { merged[i] : i \in 1..Len(merged) }

\* C2: whenever the session is longer than the existing collection, the new
\* collection is the session, in session order, cut to numOfNews.
C2_ReplaceRule ==
  (JustMerged /\ Len(session_college_data) > Len(existing_data))
    => /\ college_id \in DOMAIN final_output
       /\ final_output[college_id] = Take(session_college_data, numOfNews)

\* a replace over a collection that shares a title with the session
C2_Witness ==
  /\ JustMerged
  /\ Len(session_college_data) > Len(existing_data)
  /\ \E i \in 1..Len(session_college_data), j \in 1..Len(existing_data) :
        Norm(session_college_data[i].title) = Norm(existing_data[j].title)
  /\ final_output[college_id] = session_college_data

\* the normalized titles of a list of records
NormTitles(E) == { Norm(E[j].title) : j \in 1..Len(E) }

\* the ordered subsequence of S, from position i on, of the records whose
\* normalized title is not in the set T
RECURSIVE NotTitled(_, _, _)
NotTitled(S, T, i) ==
  IF i > Len(S) THEN <<>>
  ELSE (IF Norm(S[i].title) \in T THEN <<>> ELSE << S[i] >>) \o NotTitled(S, T, i + 1)

\* C3: when the session is non-empty and not longer than the existing
\* collection, the new collection is the first numOfNews records of
\* freshItems ++ existing if freshItems is non-empty, and is unchanged
\* otherwise.
C3_PrependRule ==
  (JustMerged /\ session_college_data # <<>>
              /\ Len(session_college_data) <= Len(existing_data))
    => LET fresh == NotTitled(session_college_data, NormTitles(existing_data), 1)
       IN  IF fresh # <<>>
           THEN Entry = Take(fresh \o existing_data, numOfNews)
           ELSE Entry = existing_data

\* existing [A, B] and session [C, A] give [C, A, B]
C3_Witness ==
  /\ JustMerged
  /\ existing_data = <<RecA, RecB>>
  /\ session_college_data = <<RecC, RecA2>>
  /\ Entry = <<RecC, RecA, RecB>>

\* C4 as stated: after any merge the collection of the source has at most
\* numOfNews records, whatever the length of the loaded collection.
C4_CapForAllInputs == JustMerged => Len(Entry) <= numOfNews

\* C4 amended: after a merge the collection has at most numOfNews records
\* unless the merge left a longer loaded collection unchanged.
C4_CapUnlessUnchanged ==
  JustMerged => (Len(Entry) <= numOfNews \/ Entry = existing_data)

\* fresh items in front of a full collection: the slice cuts the tail
C4_Witness ==
  /\ JustMerged
  /\ Len(existing_data) = numOfNews
  /\ Entry # existing_data
  /\ Len(session_college_data) <= Len(existing_data)
  /\ Len(Entry) = numOfNews

\* C5 as stated: every record of the existing collection is still in the
\* collection after the merge.
C5_NothingLost ==
  JustMerged =>
    \A i \in 1..Len(existing_data) :
      \E j \in 1..Len(Entry) : Entry[j] = existing_data[i]

\* C5 amended: a merge whose session is not longer than the existing
\* collection keeps the existing records, in order, behind the fresh ones,
\* and drops existing records only from the tail and only when the result
\* is numOfNews long.
C5_LostOnlyByReplaceOrSlice ==
  (JustMerged /\ Len(session_college_data) <= Len(existing_data))
    => \E k \in 0..Len(session_college_data) :
         /\ k <= Len(Entry)
         /\ SubSeq(Entry, k + 1, Len(Entry)) = Take(existing_data, Len(Entry) - k)
         /\ (Len(Entry) - k = Len(existing_data) \/ Len(Entry) = numOfNews)

\* a prepend that keeps every existing record
C5_Witness ==
  /\ JustMerged
  /\ session_college_data # <<>>
  /\ existing_data # <<>>
  /\ Len(Entry) > Len(existing_data)
  /\ Len(session_college_data) <= Len(existing_data)
  /\ \A i \in 1..Len(existing_data) :
       \E j \in 1..Len(Entry) : Entry[j] = existing_data[i]

(* -------------------------- properties: save -------------------------- *)
\* C6: whatever the point at which a run is killed, the file on disk is the
\* one from before the run or holds a complete store.
C6_AtomicSave ==
  pc = "crashed" => (file = file0 \/ (file.exists /\ WellFormed(file.content)))

(* ------------------------- properties: crawl -------------------------- *)
ConfiguredIds == [i \in 1..Len(items) |-> items[i].id]

\* C7: a url gets at most MaxAttempts attempts; each attempt is one
\* page.goto call; a failed attempt with attempts left is followed at once
\* by the next attempt on the same url; after the first attempt that does
\* not fail the url is not rendered again.
C7_BoundedRetries ==
  [][ /\ \A u \in DOMAIN calls' : calls'[u] <= MaxAttempts
      /\ (pc = "attempt" /\ pc' # "crashed")
           => /\ calls'[urlIdx] = calls[urlIdx] + 1
              /\ calls[urlIdx] = attempt
      /\ (pc = "attempt" /\ pc' \notin {"crashed", "items"}
                         /\ college_id \in scraper_dispatch)
           => IF calls'[urlIdx] < MaxAttempts
              THEN pc' = "attempt" /\ urlIdx' = urlIdx /\ attempt' = attempt + 1
              ELSE pc' = "urls" /\ outcome'[urlIdx] = "exhausted"
      /\ (srcIdx' = srcIdx /\ pc' # "crashed")
           => \A u \in DOMAIN calls :
                calls'[u] # calls[u]
                  => (u = urlIdx /\ pc = "attempt" /\ outcome[u] = "none")
    ]_vars

\* two failed attempts, then a successful third one whose records are kept
C7_Witness ==
  /\ pc = "urls"
  /\ urlIdx >= 1
  /\ calls[urlIdx] = MaxAttempts
  /\ outcome[urlIdx] = "ok"
  /\ session_college_data # <<>>

\* C8: a url is given up after exactly MaxAttempts page.goto calls, the
\* session goes on, and every later url of the source is still attempted.
C8_ExhaustionIsLocal ==
  \A u \in DOMAIN outcome :
    outcome[u] = "exhausted"
      => /\ calls[u] = MaxAttempts
         /\ pc # "aborted"
         /\ pc = "merge" => \A v \in DOMAIN outcome : v > u => calls[v] >= 1

\* the first url is given up, the second one fills the session
C8_Witness ==
  /\ pc = "merge"
  /\ outcome = <<"exhausted", "ok">>
  /\ calls = <<MaxAttempts, 1>>
  /\ session_college_data # <<>>

\* C9: a run that got past the start of the renderer ends only after the
\* merging block ran for every configured source, in the configured order,
\* whatever the sessions of the earlier sources were.
C9_SourceIndependence ==
  /\ pc \in {"save", "write", "done"} => merged = ConfiguredIds
  /\ pc = "aborted" => (srcIdx = 0 /\ merged = <<>>)

\* the first source produced nothing, the last one is crawled and merged
C9_Witness ==
  /\ JustMerged
  /\ merged = ConfiguredIds
  /\ "ccny" \notin DOMAIN final_output
  /\ session_college_data # <<>>
  /\ final_output[college_id] = session_college_data

\* C10: the session never holds more than numOfNews records.
C10_SessionCap == Len(session_college_data) <= numOfNews

\* the cap is reached while the extractor's list still has records
C10_Witness ==
  /\ pc = "items"
  /\ Len(session_college_data) = numOfNews
  /\ itemIdx < Len(new_items)

(* ------------------------ properties: session ------------------------- *)
\* C11: once the session holds numOfNews records no url of the source is
\* rendered any more: every page.goto call is made with a session below the cap.
C11_EarlyStopAtCap ==
  [][ (\E u \in DOMAIN calls : u \in DOMAIN calls' /\ calls'[u] > calls[u])
        => Len(session_college_data) < numOfNews ]_vars

\* the normalized descriptions of a list of records
NormDescs(S) == { Norm(S[i].description) : i \in 1..Len(S) }

\* C12: the session never holds two records with the same normalized
\* description nor one with an empty normalized description; the seen set is
\* exactly the set of normalized descriptions of the session (so it is empty
\* when a source starts); and a candidate whose normalized description is
\* empty or already in the session is not admitted, so the first occurrence
\* is the one kept.
C12_SessionDedup ==
  /\ [] LET D == NormDescs(session_college_data)
        IN  /\ seen_descriptions = D
            /\ Cardinality(D) = Len(session_college_data)
            /\ <<>> \notin D
  /\ [][ (pc = "items" /\ pc' = "items"
            /\ LET d == Norm(new_items[itemIdx + 1].description)
               IN  d = <<>> \/ d \in NormDescs(session_college_data))
           => session_college_data' = session_college_data ]_vars

\* RecB2 differs from the admitted RecB by case and surrounding whitespace
\* only and is not admitted
C12_Witness ==
  /\ pc = "items"
  /\ itemIdx >= 3
  /\ new_items[3] = RecB2
  /\ session_college_data = <<RecA, RecB>>
  /\ seen_descriptions = { DescOf(RecA), DescOf(RecB) }

\* a keyword is a substring of the lower-cased text
HasKeyword(text) ==
  \E k \in 1..Len(KEYWORDS) : Contains(KEYWORDS[k], Lower(text))

\* C13: a candidate with a non-empty description that is no duplicate is
\* admitted iff use_keywords is false or its lower-cased title or description
\* contains a keyword.
C13_RelevanceFilter ==
  [][ (pc = "items" /\ pc' = "items"
         /\ LET d == Norm(new_items[itemIdx + 1].description)
            IN  d # <<>> /\ d \notin seen_descriptions)
        => LET c == new_items[itemIdx + 1]
           IN  (session_college_data' = Append(session_college_data, c))
                 <=> (~use_keywords \/ HasKeyword(c.title)
                                    \/ HasKeyword(c.description)) ]_vars

\* with use_keywords, "Workshop a" was admitted and "Gala" / "dinner" dropped
C13_Witness ==
  /\ use_keywords
  /\ pc = "items"
  /\ itemIdx = 2
  /\ new_items[2] = RecN
  /\ session_college_data = <<RecA, RecB>>

\* C14: no record of a session has an empty or whitespace-only description,
\* with and without use_keywords.
C14_NoEmptyDescription ==
  \A i \in 1..Len(session_college_data) :
    Strip(session_college_data[i].description) # <<>>

\* without use_keywords the records with an empty and with a blank
\* description were passed over
C14_Witness ==
  /\ ~use_keywords
  /\ pc = "items"
  /\ itemIdx = 4
  /\ new_items[1] = RecE
  /\ new_items[4] = RecW
  /\ session_college_data = <<RecN, RecB2>>

(* ----------------------- properties: load, save ----------------------- *)
\* C15: loading never ends the run, and a missing file and a file that is
\* not valid JSON both give the empty store.
C15_LoadNeverFails ==
  /\ pc # "load_failed"
  /\ (pc = "launch" /\ ~(file.exists /\ Decodable(file.content)
                                     /\ WellFormed(file.content)))
       => final_output = EmptyStore

\* C16: in a run the file is opened for writing at most once, only after the
\* merging block ran for every configured source, and exactly once when the
\* run has ended by itself; the file changes at no other point, and at the
\* end it holds the store.
C16_SingleSave ==
  /\ [] /\ opens <= 1
        /\ opens = 1 => merged = ConfiguredIds
        /\ pc = "done" => (opens = 1 /\ file = FileOf(Dump(final_output)))
  /\ [][ file' # file
           => (pc \in {"save", "write"} /\ merged = ConfiguredIds) ]_vars

\* a run that changed two collections has ended with one write
C16_Witness ==
  /\ pc = "done"
  /\ opens = 1
  /\ {"ccny", "bmcc"} \subseteq DOMAIN final_output
  /\ file.content = Dump(final_output)
  /\ file # file0

\* the records of a list
Records(list) == { list[i] : i \in 1..Len(list) }

\* the records returned by the extractions of the current session
Emitted == UNION { Records(Extract(docs_ok[i].doc)) : i \in 1..Len(docs_ok) }

\* C17: after the merge of a source every record of its collection is equal,
\* field for field, to a record an extractor returned in this session or to
\* a record of the collection loaded for the source at the start of the run;
\* and the file written at the end holds the records of the store unchanged.
C17_RecordsNotMutated ==
  /\ JustMerged
       => /\ existing_data = Get(LoadStore(file0), college_id, <<>>)
          /\ Records(Entry) \subseteq (Emitted \cup Records(existing_data))
  /\ pc = "done"
       => (WellFormed(file.content) /\ Parse(file.content) = final_output)

\* a record with an extra field and an upper-case title went through the
\* session, a merge over loaded records, and the file
C17_Witness ==
  /\ pc = "done"
  /\ "ccny" \in DOMAIN final_output
  /\ RecT \in Records(Parse(file.content)["ccny"])
  /\ BigItem(1) \in Records(Parse(file.content)["ccny"])
  /\ BigItem(1) \in Records(Get(LoadStore(file0), "ccny", <<>>))

(* ------------------------ properties: pipeline ------------------------ *)
\* the relevance filter of the specification, empty descriptions included
FilterPass(c) ==
  /\ Norm(c.description) # <<>>
  /\ (~use_keywords \/ HasKeyword(c.title) \/ HasKeyword(c.description))

\* one step of filter-then-dedup over the records admitted so far
PipelineStep(S, c) ==
  IF FilterPass(c) /\ Norm(c.description) \notin NormDescs(S)
  THEN Append(S, c) ELSE S

\* C18: every iteration of the item loop changes the session as one step of
\* a filter-then-dedup pipeline does, and the seen set holds the descriptions
\* of the admitted records only: a record dropped by the filter takes no
\* place in the session and does not register its description.
C18_FilterThenDedup ==
  [][ (pc = "items" /\ pc' = "items")
        => /\ session_college_data' =
                PipelineStep(session_college_data, new_items[itemIdx + 1])
           /\ seen_descriptions' = NormDescs(session_college_data') ]_vars

\* with use_keywords RecN was dropped by the filter, and RecN2, which has the
\* same normalized description and a keyword, is admitted after it
C18_Witness ==
  /\ use_keywords
  /\ pc = "items"
  /\ itemIdx = 7
  /\ new_items[2] = RecN
  /\ new_items[7] = RecN2
  /\ session_college_data = <<RecB2, RecT, RecN2>>

\* S[i..] can be matched, in order, inside R[j..]
RECURSIVE Embeds(_, _, _, _)
Embeds(S, i, R, j) ==
  IF i > Len(S) THEN TRUE
  ELSE IF j > Len(R) THEN FALSE
  ELSE IF S[i] = R[j] THEN Embeds(S, i + 1, R, j + 1)
  ELSE Embeds(S, i, R, j + 1)

\* the records the item loop has looked at, in the order of the extractions;
\* of the last extraction only the first itemIdx records
RECURSIVE Considered(_)
Considered(n) ==
  IF n = 0 THEN <<>>
  ELSE Considered(n - 1) \o
       (IF n = Len(docs_ok)
        THEN SubSeq(Extract(docs_ok[n].doc), 1, itemIdx)
        ELSE Extract(docs_ok[n].doc))

\* C19: the urls of the successful extractions of a session are in the
\* configured order, each url at most once, and the session is an
\* order-preserving subsequence of the records considered so far.
C19_SessionOrdering ==
  (srcIdx >= 1 /\ pc \in {"urls", "attempt", "items", "merge", "sources"})
    => /\ \A i \in 1..Len(docs_ok) :
            /\ docs_ok[i].url \in 1..urlIdx
            /\ docs_ok[i].doc \in UrlDocs(urls[docs_ok[i].url])
            /\ i > 1 => docs_ok[i - 1].url < docs_ok[i].url
       /\ Embeds(session_college_data, 1, Considered(Len(docs_ok)), 1)

\* two extractions, records of both in the session, some passed over
C19_Witness ==
  /\ pc = "merge"
  /\ Len(docs_ok) = 2
  /\ docs_ok[1].doc = "ab"
  /\ docs_ok[2].doc = "mix"
  /\ session_college_data = <<RecA, RecB, RecT, RecN2, RecS>>

\* C20: the merging block of a source changes no entry of another key and
\* neither adds nor removes another key; a key of the loaded store that is
\* not configured is in the file written at the end as it was loaded.
C20_MergeFrame ==
  /\ [][ (pc = "merge" /\ pc' = "sources")
           => \A k \in (DOMAIN final_output) \cup (DOMAIN final_output') :
                k # college_id
                  => /\ k \in DOMAIN final_output
                     /\ k \in DOMAIN final_output'
                     /\ final_output'[k] = final_output[k] ]_vars
  /\ [] (pc = "done"
           => \A k \in DOMAIN LoadStore(file0) :
                k \notin Records(ConfiguredIds)
                  => /\ WellFormed(file.content)
                     /\ k \in DOMAIN Parse(file.content)
                     /\ Parse(file.content)[k] = LoadStore(file0)[k])

\* the collection of a configured source changed and the key that is not
\* configured is written back as loaded
C20_Witness ==
  /\ pc = "done"
  /\ "york" \in DOMAIN LoadStore(file0)
  /\ Parse(file.content)["york"] = <<RecN>>
  /\ Parse(file.content)["ccny"] # LoadStore(file0)["ccny"]
  /\ "bmcc" \in DOMAIN Parse(file.content)

(* ------------------------ properties: freshness ----------------------- *)
\* C21: whenever the merging block changes the collection of the source (a
\* replace, or a prepend with fresh records), the first record of the new
\* collection is a record of the session, and the collection is a block of
\* session records followed by a block of records kept from the old
\* collection, in their old order: no kept record stands before a fresh one.
C21_FreshnessAtFront ==
  LET fresh    == NotTitled(session_college_data, NormTitles(existing_data), 1)
      replace  == Len(session_college_data) > Len(existing_data)
      prepend  == ~replace /\ session_college_data # <<>> /\ fresh # <<>>
  IN  (JustMerged /\ (replace \/ prepend))
        => /\ Entry # <<>>
           /\ Entry[1] \in Records(session_college_data)
           /\ \E k \in 1..Len(Entry) :
                /\ \A i \in 1..k :
                     /\ Entry[i] \in Records(session_college_data)
                     /\ prepend => Norm(Entry[i].title) \notin NormTitles(existing_data)
                /\ SubSeq(Entry, k + 1, Len(Entry)) = Take(existing_data, Len(Entry) - k)
                /\ replace => k = Len(Entry)

\* fresh records stand in front of a long loaded collection whose tail was cut
C21_Witness ==
  /\ JustMerged
  /\ Len(existing_data) = numOfNews + 1
  /\ Len(session_college_data) >= 2
  /\ Entry[1] = session_college_data[1]
  /\ Entry[2] = session_college_data[2]
  /\ Entry[Len(Entry)] \in Records(existing_data)
  /\ Entry[Len(Entry)] \notin Records(session_college_data)

(* ----------------------- properties: termination ---------------------- *)
\* the steps of one run of a process that is not killed
LiveNext ==
  \/ LoadState
  \/ LoadFail
  \/ LaunchOk
  \/ LaunchFail
  \/ NextSource
  \/ NextUrl
  \/ RenderFail
  \/ ExtractFail
  \/ ExtractOk
  \/ NoExtractor
  \/ NextItem
  \/ Merge
  \/ OpenForWrite
  \/ WriteChunk

\* the run is a single coroutine: as long as it is not killed and every
\* awaited call returns or raises, its next step is taken
LiveSpec == Init /\ [][LiveNext]_vars /\ WF_vars(LiveNext)

\* the page.goto calls made for the urls of the current source
RECURSIVE SumCalls(_, _)
SumCalls(c, u) == IF u = 0 THEN 0 ELSE c[u] + SumCalls(c, u - 1)

\* the source loop (line 1370) has just been entered
CrawlStarted == pc = "sources" /\ srcIdx = 0

\* C22: once the source loop is entered, the run makes at most MaxAttempts
\* page.goto calls per url of a source, and it reaches its end with the
\* merging block done for every configured source and the file written.
C22_Termination ==
  /\ [] (srcIdx >= 1 => SumCalls(calls, Len(calls)) <= MaxAttempts * Len(urls))
  /\ CrawlStarted ~> (pc = "done" /\ opens = 1 /\ merged = ConfiguredIds)

\* every attempt of every url of the last source failed, and the run has
\* merged every source and saved
C22_Witness ==
  /\ pc = "done"
  /\ opens = 1
  /\ merged = ConfiguredIds
  /\ calls = <<MaxAttempts>>
  /\ outcome = <<"exhausted">>

(* ---------------------- properties: across runs ----------------------- *)
\* every collection of the store has at most numOfNews records
Capped(store) == \A k \in DOMAIN store : Len(store[k]) <= numOfNews

\* C23: when the first run found a missing, unreadable or empty state file,
\* then at every point of every later run, whatever the renders and the
\* extractors did, every collection of the store on disk and of the store in
\* memory has at most numOfNews records.
C23_CapAcrossRuns ==
  started_empty => (Capped(LoadStore(file)) /\ Capped(final_output))

\* the first run filled a collection from nothing, the second run put fresh
\* records in front of it and the cut kept it at numOfNews
C23_Witness ==
  /\ started_empty
  /\ run = 2
  /\ pc = "done"
  /\ "ccny" \in DOMAIN LoadStore(file0)
  /\ Len(LoadStore(file0)["ccny"]) = numOfNews
  /\ Len(LoadStore(file)["ccny"]) = numOfNews
  /\ LoadStore(file)["ccny"] # LoadStore(file0)["ccny"]

\* the store after the merging block is run once more for the source with
\* the same session
MergedAgain == MergeStore(final_output, college_id, session_college_data)

\* C24 as stated: for an existing collection of at most numOfNews records,
\* merging the same session a second time changes nothing.
C24_MergeIdempotent ==
  (JustMerged /\ Len(existing_data) <= numOfNews) => MergedAgain = final_output

\* C24 amended: merging the same session a second time changes nothing
\* unless the first merge was a prepend whose cut dropped records from the
\* end of the existing collection.
C24_IdempotentUnlessCut ==
  LET fresh == NotTitled(session_college_data, NormTitles(existing_data), 1)
  IN  (JustMerged /\ Len(existing_data) <= numOfNews
         /\ (Len(session_college_data) > Len(existing_data)
               \/ Len(fresh) + Len(existing_data) <= numOfNews))
        => MergedAgain = final_output

\* a prepend of one fresh record in front of a short collection, with a
\* session record whose title the collection already has
C24_Witness ==
  /\ JustMerged
  /\ run = 2
  /\ existing_data # <<>>
  /\ Len(Entry) > Len(existing_data)
  /\ Len(Entry) < Len(existing_data) + Len(session_college_data)
  /\ Len(Entry) < numOfNews
  /\ MergedAgain = final_output

\* the (normalized title, normalized description) pairs of a list of records
NormKeys(S) == { << Norm(S[i].title), Norm(S[i].description) >> : i \in 1..Len(S) }

\* C25 as stated: when the first run started from an empty store, no
\* collection of the persisted store ever holds two records with the same
\* normalized description.
C25_Deduplicated ==
  started_empty =>
    LET store == LoadStore(file)
    IN  \A k \in DOMAIN store : Cardinality(NormDescs(store[k])) = Len(store[k])

\* C25 amended: when the first run started from an empty store, no collection
\* of the persisted store ever holds two records with the same normalized
\* description and the same normalized title.
C25_DeduplicatedByTitleAndDescription ==
  started_empty =>
    LET store == LoadStore(file)
    IN  \A k \in DOMAIN store : Cardinality(NormKeys(store[k])) = Len(store[k])

\* the second run put RecB2 in front of a collection that holds RecB: the
\* descriptions are the same after normalization, the titles are not
C25_Witness ==
  /\ started_empty
  /\ run = 2
  /\ pc = "done"
  /\ "ccny" \in DOMAIN LoadStore(file)
  /\ {RecB, RecB2} \subseteq Records(LoadStore(file)["ccny"])
  /\ Cardinality(NormKeys(LoadStore(file)["ccny"])) = Len(LoadStore(file)["ccny"])

\* C26: the merging block never makes a collection of at most numOfNews
\* records shorter; and when the first run started from an empty store, every
\* run that ends by itself leaves on disk, for every key it loaded, a
\* collection at least as long as the one it loaded.
C26_LengthNeverShrinks ==
  /\ (JustMerged /\ Len(existing_data) <= numOfNews)
       => Len(Entry) >= Len(existing_data)
  /\ (started_empty /\ pc = "done")
       => \A k \in DOMAIN LoadStore(file0) :
            /\ k \in DOMAIN LoadStore(file)
            /\ Len(LoadStore(file)[k]) >= Len(LoadStore(file0)[k])

\* in the second run one collection grew by a prepend and another one, whose
\* session was shorter and brought nothing fresh, kept its length
C26_Witness ==
  /\ started_empty
  /\ run = 2
  /\ pc = "done"
  /\ {"ccny", "bmcc"} \subseteq DOMAIN LoadStore(file0)
  /\ Len(LoadStore(file)["ccny"]) > Len(LoadStore(file0)["ccny"])
  /\ LoadStore(file)["ccny"][Len(LoadStore(file)["ccny"])] \in Records(LoadStore(file0)["ccny"])
  /\ LoadStore(file)["bmcc"] = LoadStore(file0)["bmcc"]

(* ------------------------ properties: attempts ------------------------ *)
\* the step is an attempt of the current url that ends in the except clause
FailedAttempt ==
  /\ pc = "attempt"
  /\ pc' \in {"attempt", "urls"}
  /\ outcome'[urlIdx] # "ok"

\* the extractions of the session that were made from the url at position u
ExtractionsOf(u) == { i \in 1..Len(docs_ok) : docs_ok[i].url = u }

\* C27: an attempt that fails in the render or in the extractor leaves the
\* session and the seen set as they were; the session and the seen set change
\* only while the records of an extraction are gone through; and these
\* records come from the only attempt of the url that did not fail, every
\* earlier attempt of the url having failed and no later one being made.
C27_FailedAttemptsContributeNothing ==
  /\ [][ FailedAttempt
           => /\ session_college_data' = session_college_data
              /\ seen_descriptions' = seen_descriptions ]_vars
  /\ [][ (srcIdx' = srcIdx
            /\ (session_college_data' # session_college_data
                  \/ seen_descriptions' # seen_descriptions))
           => (pc = "items" /\ pc' = "items") ]_vars
  /\ [] (pc = "items"
           => /\ outcome[urlIdx] = "none"
              /\ calls[urlIdx] = attempt + 1
              /\ Cardinality(ExtractionsOf(urlIdx)) = 1
              /\ docs_ok[Len(docs_ok)].url = urlIdx)
  /\ [] (srcIdx >= 1 /\ pc \in {"urls", "attempt", "items", "merge"}
           => \A u \in 1..Len(urls) : Cardinality(ExtractionsOf(u)) <= 1)

\* the first url gave records at once; the second url failed twice and gave
\* more records on its third attempt
C27_Witness ==
  /\ pc = "merge"
  /\ calls = <<1, MaxAttempts>>
  /\ outcome = <<"ok", "ok">>
  /\ Len(docs_ok) = 2
  /\ docs_ok[1].doc = "ab"
  /\ docs_ok[2].doc = "ca"
  /\ session_college_data = <<RecA, RecB, RecC, RecA2>>

(* ---------------------- properties: source order ---------------------- *)
\* one run that is not killed, for every iteration order of college_urls
OrderSpec == OrderInit /\ [][LiveNext]_vars

\* all records returned by the extractions of the current source, in order
RECURSIVE AllExtracted(_)
AllExtracted(n) ==
  IF n = 0 THEN <<>> ELSE AllExtracted(n - 1) \o Extract(docs_ok[n].doc)

\* the session the filter, the deduplicator and the cap make of a list of
\* records, from position i on, S being the records admitted so far
RECURSIVE SessionOf(_, _, _)
SessionOf(records, i, S) ==
  IF i > Len(records) \/ Len(S) >= numOfNews THEN S
  ELSE SessionOf(records, i + 1, PipelineStep(S, records[i]))

\* the store after the merges of the recorded sessions, made in the order the
\* sources are written in the configuration
RECURSIVE MergedInConfiguredOrder(_, _)
MergedInConfiguredOrder(store, n) ==
  IF n = 0 THEN store
  ELSE MergeStore(MergedInConfiguredOrder(store, n - 1),
                  college_urls[n].id, Get(sessions, college_urls[n].id, <<>>))

\* C28: in whatever order the sources are gone through, the session of a
\* source is what its own extractions give, whatever was crawled before it,
\* and the store at the end of the run, in memory and on disk, is the store
\* that merging the same sessions in the configured order gives.
C28_OrderIndependence ==
  /\ pc = "merge"
       => session_college_data = SessionOf(AllExtracted(Len(docs_ok)), 1, <<>>)
  /\ pc \in {"save", "write", "done"}
       => final_output = MergedInConfiguredOrder(LoadStore(file0), Len(college_urls))
  /\ pc = "done"
       => /\ WellFormed(file.content)
          /\ Parse(file.content) =
               MergedInConfiguredOrder(LoadStore(file0), Len(college_urls))

\* the sources were gone through in the reverse of the configured order and
\* two collections changed
C28_Witness ==
  /\ pc = "done"
  /\ items[1].id = "bmcc"
  /\ items[3].id = "ccny"
  /\ merged = <<"bmcc", "nope", "ccny">>
  /\ sessions["bmcc"] # <<>>
  /\ sessions["ccny"] # <<>>
  /\ Get(final_output, "ccny", <<>>) # Get(LoadStore(file0), "ccny", <<>>)
  /\ Get(final_output, "bmcc", <<>>) # Get(LoadStore(file0), "bmcc", <<>>)

(* ----------------------- properties: start, config -------------------- *)
\* C29: a step from the start of the renderer that is neither its success
\* nor a kill ends the run; a run ended in this way has crawled no source,
\* has not opened the state file for writing, and has left the file as it was
\* when the run started; nothing follows but a new run.
C29_StartupFailure ==
  /\ [][ (pc = "launch" /\ pc' \notin {"sources", "crashed"})
           => (pc' = "aborted" /\ file' = file) ]_vars
  /\ [] (pc = "aborted"
           => /\ file = file0
              /\ opens = 0
              /\ srcIdx = 0
              /\ calls = <<>>
              /\ sessions = EmptyStore)
  /\ [][ pc = "aborted" => (pc' = "load" /\ file' = file) ]_vars

\* the first run saved a store; the second run could not start the renderer
\* and the saved store is still on disk
C29_Witness ==
  /\ pc = "aborted"
  /\ run = 2
  /\ started_empty
  /\ file = file0
  /\ WellFormed(file.content)
  /\ "ccny" \in DOMAIN Parse(file.content)

\* the current source has no extractor in the dispatch mapping
Unregistered == srcIdx >= 1 /\ college_id \notin scraper_dispatch

\* C30: for a configured source without extractor every url is rendered, no
\* extraction is made and the item loop is never entered, the session stays
\* empty, the merging block leaves the store as it is, and at the end of the
\* run the key of the source is in the store exactly if it was loaded, with
\* the loaded collection; the merging block still runs for every source.
C30_UnregisteredSource ==
  /\ [] (Unregistered
           => /\ session_college_data = <<>>
              /\ seen_descriptions = {}
              /\ docs_ok = <<>>
              /\ pc # "items")
  /\ [] ((Unregistered /\ pc = "merge")
           => \A u \in 1..Len(urls) : calls[u] >= 1)
  /\ [][ (Unregistered /\ pc = "merge" /\ pc' = "sources")
           => final_output' = final_output ]_vars
  /\ [] (pc \in {"save", "write", "done"}
           => /\ merged = ConfiguredIds
              /\ \A i \in 1..Len(items) :
                   items[i].id \notin scraper_dispatch
                     => /\ (items[i].id \in DOMAIN final_output)
                             <=> (items[i].id \in DOMAIN LoadStore(file0))
                        /\ Get(final_output, items[i].id, <<>>)
                             = Get(LoadStore(file0), items[i].id, <<>>))

\* the url of the source without extractor was rendered, its loaded
\* collection is written back as it was, and the source after it got records
C30_Witness ==
  /\ pc = "done"
  /\ merged = <<"ccny", "nope", "bmcc">>
  /\ Get(sessions, "nope", <<RecA>>) = <<>>
  /\ Get(LoadStore(file0), "nope", <<>>) = <<RecB>>
  /\ Get(LoadStore(file), "nope", <<>>) = <<RecB>>
  /\ Get(sessions, "bmcc", <<>>) # <<>>
  /\ Get(LoadStore(file), "bmcc", <<>>) = Get(sessions, "bmcc", <<>>)

====
